---- MODULE Spec2Model ----
(***************************************************************************)
(* Model of the settlement overpayment analysis (src/src/main.rs).         *)
(*                                                                         *)
(* Units.  TLC integers are 32 bit, so quantities are kept in scaled       *)
(* units: gas prices in gwei (1e9 wei), gas amounts in units of 1e5 gas,   *)
(* ether amounts in units of 1e-4 ETH.  With these units the code's        *)
(* `price * gas / 1e18` is (p*1e9)*(g*1e5)/1e18 = p*g * 1e-4 ETH, an exact *)
(* integer number of output units.  Floating point rounding, NaN and       *)
(* infinities are outside the model.                                       *)
(***************************************************************************)
EXTENDS Integers, Sequences, FiniteSets, TLC

\* ---- bounds of the model ------------------------------------------------
MaxSettlements == 2
MaxOrders == 2
MaxGas == 2
MaxDelta == 2

\* ---- Option<T> -----------------------------------------------------------
None == [some |-> FALSE, v |-> 0]
Some(x) == [some |-> TRUE, v |-> x]
unwrap_or(opt, default) == IF opt.some THEN opt.v ELSE default

\* ---- command line (struct Args) ------------------------------------------
Args == [from : {None, Some(1), Some(2)}, to : {None, Some(2)}, blocks : {0, 1}]

\* block heights the node may report
NodeHeights == {2}

\* ---- the store: settlements table and the orders query --------------------
HashLen == 32

SettlementRow(id, len, block, log) ==
  [tx_hash |-> [id |-> id, len |-> len], block_number |-> block, log_index |-> log]

\* rows the settlements table may hold; (block_number, log_index) is unique
TableRows ==
  { SettlementRow(1, 32, 0, 0), SettlementRow(2, 32, 1, 0), SettlementRow(3, 32, 1, 1),
    SettlementRow(4, 32, 2, 0), SettlementRow(5, 20, 2, 1) }

RowBefore(r, q) ==
  \/ r.block_number < q.block_number
  \/ r.block_number = q.block_number /\ r.log_index <= q.log_index

RECURSIVE SortRows(_)
SortRows(S) ==
  IF S = {} THEN <<>>
  ELSE LET m == CHOOSE r \in S : \A q \in S : RowBefore(r, q)
       IN <<m>> \o SortRows(S \ {m})

\* SELECT ... WHERE block_number BETWEEN $1 AND $2 ORDER BY (block_number, log_index)
settlements_query(start_block, end_block, table) ==
  SortRows({r \in table : start_block <= r.block_number /\ r.block_number <= end_block})

OrderRow(uid, sell_token, unsubsidized_fee, gas_amount, gas_price, sell_token_price, created) ==
  [uid |-> uid, sell_token |-> sell_token, unsubsidized_fee |-> unsubsidized_fee,
   earned_fee |-> Some(1), gas_amount |-> gas_amount, gas_price |-> gas_price,
   sell_token_price |-> sell_token_price, creation_timestamp |-> created]

\* a row whose order record and fee parameters were both joined
FullOrder(uid, g, p, created) == OrderRow(uid, Some(1), Some(1), Some(g), Some(p), Some(1), created)
\* outer join found no order record: sell_token, fee and creation time are empty
RowWithoutOrder == OrderRow(7, None, None, Some(1), Some(50), Some(1), None)
\* outer join found no fee parameters: gas_amount, gas_price, sell_token_price are empty
RowWithoutFeeParams == OrderRow(8, Some(1), Some(1), None, None, None, None)

\* ---- the node: receipts and block timestamps ------------------------------
OldAfter == 20 * 60

Receipt(block, gas_used, price) ==
  [found |-> TRUE, block_number |-> block, gas_used |-> gas_used, effective_gas_price |-> price]
NoReceipt == [found |-> FALSE, block_number |-> None, gas_used |-> None, effective_gas_price |-> None]

\* timestamps (seconds) the node reports for a settlement's block
BlockTimes == {1000000 + OldAfter + d : d \in 0..MaxDelta}
\* creation timestamps of orders
CreationTimes == {1000000 + d : d \in 0..MaxDelta}

\* ---- Result<T> of a fetch; v is meaningful only when status = "ok" ---------
Result(status, v) == [status |-> status, v |-> v]
Ok(x) == Result("ok", x)
IsOk(r) == r.status = "ok"
IsErr(r) == r.status = "err"

VARIABLES
  args,                \* parsed command line
  pc,                  \* position of main / print_settlement
  error,               \* message the run aborted with
  io,                  \* I/O operations started so far
  current_block, from, to,
  settlements,         \* Vec<SettlementRow> collected from the query
  idx,                 \* 1-based position of the for loop in settlements
  inflight,            \* futures started and not completed
  receipt, orders,     \* results of the two joined futures
  over_payed_excess, over_payed_total,   \* running totals of main
  summary,             \* number of summary lines printed
  settlement_timestamp, k,               \* print_settlement locals
  settlement_excess, settlement_total,   \* print_settlement's over_payed_excess/_total
  age, over_payed_excessive, over_payed, recorded,   \* locals of the last loop iteration
  calls,               \* settlements print_settlement was called for
  outcomes             \* per finished settlement: its fetch results and what main did

driver == <<args, pc, error, io, current_block, from, to, settlements, idx, inflight,
            receipt, orders, over_payed_excess, over_payed_total, summary, calls, outcomes>>
locals == <<settlement_timestamp, k, settlement_excess, settlement_total,
            age, over_payed_excessive, over_payed, recorded>>
vars == <<driver, locals>>

\* ---- inputs of the driver -------------------------------------------------
\* what the node may answer for a settlement's transaction_receipt
MainReceipts(block) ==
  { NoReceipt, Receipt(Some(block), Some(1), Some(150)), Receipt(Some(block), Some(1), Some(90)),
    Receipt(None, Some(1), Some(150)) }

\* what the orders query may return for a settlement's block
MainOrderLists ==
  { <<>>,
    <<FullOrder(1, 1, 50, None)>>,
    <<FullOrder(1, 1, 50, None), FullOrder(2, 2, 40, Some(1000000))>>,
    <<FullOrder(1, 1, 50, None), RowWithoutOrder>>,
    <<RowWithoutFeeParams>> }

Tables == {t \in SUBSET TableRows : Cardinality(t) <= MaxSettlements}

NoLocals ==
  /\ settlement_timestamp = 0 /\ k = 0
  /\ settlement_excess = 0 /\ settlement_total = 0
  /\ age = "" /\ over_payed_excessive = 0 /\ over_payed = 0 /\ recorded = FALSE

NoLocals_next ==
  /\ settlement_timestamp' = 0 /\ k' = 0
  /\ settlement_excess' = 0 /\ settlement_total' = 0
  /\ age' = "" /\ over_payed_excessive' = 0 /\ over_payed' = 0 /\ recorded' = FALSE

Init ==
  /\ args \in Args
  /\ pc = "start" /\ error = "" /\ io = {}
  /\ current_block = 0 /\ from = None /\ to = None
  /\ settlements = <<>> /\ idx = 0 /\ inflight = {}
  /\ receipt = Result("none", NoReceipt) /\ orders = Result("none", <<>>)
  /\ over_payed_excess = 0 /\ over_payed_total = 0 /\ summary = 0
  /\ calls = {} /\ outcomes = <<>>
  /\ NoLocals

\* `?` on an Err, anyhow::ensure! failing: main returns the error
Abort(msg) == pc' = "aborted" /\ error' = msg
\* unwrap() on None / Err: the process panics
Panic == pc' = "panicked" /\ error' = "panic"

\* main, lines 57-61: create the transport, connect to the database
Connect ==
  /\ pc = "start"
  /\ \/ /\ Abort("create node transport")
        /\ UNCHANGED io
     \/ /\ io' = io \cup {"db_connect"}
        /\ \/ pc' = "connected" /\ UNCHANGED error
           \/ Abort("connect to database")
  /\ UNCHANGED <<args, current_block, from, to, settlements, idx, inflight, receipt, orders,
                 over_payed_excess, over_payed_total, summary, calls, outcomes, locals>>

\* main, lines 63-68: ask the node for the current block number
BlockNumber ==
  /\ pc = "connected"
  /\ io' = io \cup {"node_block_number"}
  /\ \/ \E h \in NodeHeights : current_block' = h /\ pc' = "resolve" /\ UNCHANGED error
     \/ Abort("get current block") /\ UNCHANGED current_block
  /\ UNCHANGED <<args, from, to, settlements, idx, inflight, receipt, orders,
                 over_payed_excess, over_payed_total, summary, calls, outcomes, locals>>

\* mutant: the range check admits an empty range
range_is_valid_or_equal(f, t) == f <= t

\* main, line 80: anyhow::ensure!(from < to, ...)
range_is_valid(f, t) == f < t

\* main, lines 69-81: resolve the range and validate it
Validate ==
  /\ pc = "resolve"
  /\ LET t == unwrap_or(args.to, current_block)
         f == unwrap_or(args.from, t - args.blocks)
     IN /\ to' = Some(t) /\ from' = Some(f)
        /\ IF range_is_valid(f, t)
           THEN pc' = "query" /\ UNCHANGED error
           ELSE Abort("start has to be before end")
  /\ UNCHANGED <<args, io, current_block, settlements, idx, inflight, receipt, orders,
                 over_payed_excess, over_payed_total, summary, calls, outcomes, locals>>

\* main, lines 83-88: collect the settlements of the range, zero the totals
QuerySettlements ==
  /\ pc = "query"
  /\ io' = io \cup {"db_settlements"}
  /\ \/ \E table \in Tables :
           /\ settlements' = settlements_query(from.v, to.v, table)
           /\ over_payed_excess' = 0 /\ over_payed_total' = 0
           /\ pc' = "loop" /\ UNCHANGED error
     \/ /\ Abort("get settlements from db")
        /\ UNCHANGED <<settlements, over_payed_excess, over_payed_total>>
  /\ UNCHANGED <<args, current_block, from, to, idx, inflight, receipt, orders,
                 summary, calls, outcomes, locals>>

Fetch(i, kind) == [idx |-> i, kind |-> kind]

\* main, lines 89-99: take the next settlement, convert its hash, start both fetches
NextSettlement ==
  /\ pc = "loop" /\ idx < Len(settlements)
  /\ idx' = idx + 1
  /\ IF settlements[idx + 1].tx_hash.len = HashLen
     THEN /\ inflight' = {Fetch(idx + 1, "receipt"), Fetch(idx + 1, "orders")}
          /\ receipt' = Result("pending", NoReceipt)
          /\ orders' = Result("pending", <<>>)
          /\ io' = io \cup {"node_receipt", "db_orders"}
          /\ pc' = "join" /\ UNCHANGED error
     ELSE /\ Abort("")
          /\ UNCHANGED <<inflight, receipt, orders, io>>
  /\ UNCHANGED <<args, current_block, from, to, settlements,
                 over_payed_excess, over_payed_total, summary, calls, outcomes, locals>>

\* main, line 97: web3.eth().transaction_receipt(hash) completes
ReceiptDone ==
  /\ \E f \in inflight :
       /\ f.kind = "receipt"
       /\ inflight' = inflight \ {f}
       /\ \/ receipt' = Result("err", NoReceipt)
          \/ \E r \in MainReceipts(settlements[f.idx].block_number) : receipt' = Ok(r)
  /\ UNCHANGED <<args, pc, error, io, current_block, from, to, settlements, idx, orders,
                 over_payed_excess, over_payed_total, summary, calls, outcomes, locals>>

\* main, line 98: orders(block, connection).try_collect() completes
OrdersDone ==
  /\ \E f \in inflight :
       /\ f.kind = "orders"
       /\ inflight' = inflight \ {f}
       /\ \/ orders' = Result("err", <<>>)
          \/ \E l \in MainOrderLists : orders' = Ok(l)
  /\ UNCHANGED <<args, pc, error, io, current_block, from, to, settlements, idx, receipt,
                 over_payed_excess, over_payed_total, summary, calls, outcomes, locals>>

\* mutant: the loop body goes on as soon as the receipt has arrived
receipt_completed(fs) == \A f \in fs : f.kind # "receipt"

\* main, line 96: futures::join! returns when both futures have completed
both_completed(fs) == fs = {}

\* mutant: all() in place of any()
all_sell_tokens_missing(list) == \A i \in 1..Len(list) : ~list[i].sell_token.some

\* main, line 108: orders.iter().any(|order| order.sell_token.is_none())
any_sell_token_missing(list) == \E i \in 1..Len(list) : ~list[i].sell_token.some

\* mutant: the orders result is unwrapped before the receipt is matched
join_decision_orders_first(rc, ords) ==
  IF IsErr(rc) THEN "abort_receipt"
  ELSE IF IsErr(ords) THEN "abort_orders"
  ELSE IF ~rc.v.found THEN "skip_receipt"
  ELSE IF any_sell_token_missing(ords.v) THEN "skip_orders"
  ELSE "analyze"

\* main, lines 100-111: what the loop body does with the two results
join_decision(rc, ords) ==
  IF IsErr(rc) THEN "abort_receipt"
  ELSE IF ~rc.v.found THEN "skip_receipt"
  ELSE IF IsErr(ords) THEN "abort_orders"
  ELSE IF any_sell_token_missing(ords.v) THEN "skip_orders"
  ELSE "analyze"

\* the two results are dropped at the end of a loop iteration
Dropped == receipt' = Result("none", NoReceipt) /\ orders' = Result("none", <<>>)

\* history: how an iteration ended, what it had fetched, the running totals it left
Outcome(what, rc, ords, excess, total) ==
  [what |-> what, receipt |-> rc, orders |-> ords, excess |-> excess, total |-> total]

\* main, lines 100-113, and print_settlement up to its first await (line 154)
Join ==
  /\ pc = "join" /\ both_completed(inflight)
  /\ LET d == join_decision(receipt, orders) IN
     \/ /\ d = "abort_receipt" /\ Abort("transaction_receipt")
        /\ UNCHANGED <<io, inflight, calls, outcomes, receipt, orders>>
     \/ /\ d = "abort_orders" /\ Abort("orders")
        /\ UNCHANGED <<io, inflight, calls, outcomes, receipt, orders>>
     \/ /\ d = "skip_receipt"
        /\ outcomes' = Append(outcomes, Outcome("receipt_not_found", receipt, orders,
                                                over_payed_excess, over_payed_total))
        /\ Dropped
        /\ pc' = "loop" /\ UNCHANGED <<error, io, inflight, calls>>
     \/ /\ d = "skip_orders"
        /\ outcomes' = Append(outcomes, Outcome("order_information_not_found", receipt, orders,
                                                over_payed_excess, over_payed_total))
        /\ Dropped
        /\ pc' = "loop" /\ UNCHANGED <<error, io, inflight, calls>>
     \/ /\ d = "analyze"
        /\ calls' = calls \cup {idx}
        /\ IF receipt.v.block_number.some
           THEN /\ inflight' = {Fetch(idx, "block")}
                /\ io' = io \cup {"node_block"}
                /\ pc' = "timestamp" /\ UNCHANGED error
           ELSE Panic /\ UNCHANGED <<inflight, io>>
        /\ UNCHANGED <<outcomes, receipt, orders>>
  /\ UNCHANGED <<args, current_block, from, to, settlements, idx,
                 over_payed_excess, over_payed_total, summary, locals>>

\* ---- print_settlement ------------------------------------------------------
RECURSIVE Pow10(_)
Pow10(n) == IF n = 0 THEN 1 ELSE 10 * Pow10(n - 1)

\* decimal exponents of the units: a price unit is 1e9 wei, a gas unit 1e5 gas,
\* an ether unit 1e-6 ETH; the code divides wei by 1e18
PriceExp == 9
GasExp == 5
EthExp == 6
EthDecimals == 18

\* `x / 1e18` for x a price (price units) times a gas amount (gas units), in ether units
wei_to_eth(x) == x * Pow10(PriceExp + GasExp + EthExp - EthDecimals)

\* lines 174-178: settlement_timestamp - creation_timestamp.unwrap_or_default()
order_age(timestamp, created) == timestamp - unwrap_or(created, 0)
\* lines 179-180
age_label(order_age_seconds) == IF order_age_seconds > OldAfter THEN "old" ELSE "recent"
\* lines 181-182
gas_price_intolerated_difference(effective, gas_price) == effective - gas_price * 2

\* mutant: the 1x figure computed like the 2x figure
gas_price_excess_doubled(effective, gas_price) == effective - gas_price * 2

\* line 183
gas_price_excess(effective, gas_price) == effective - gas_price

\* mutant: the threshold fires at a difference of zero
is_over_payed_or_equal(difference) == difference >= 0

\* mutant: the threshold fires on any non-zero difference
is_over_payed_nonzero(difference) == difference # 0

\* line 193
is_over_payed(difference) == difference > 0

\* the unwrap() calls of one loop iteration, lines 165-172 and 182-183
order_unwraps(rc, o) ==
  /\ o.sell_token.some /\ o.sell_token_price.some /\ o.earned_fee.some
  /\ o.unsubsidized_fee.some /\ o.gas_amount.some /\ o.gas_price.some
  /\ rc.effective_gas_price.some

\* timestamp_at_block (lines 40-52) completes; print_settlement lines 154-162
BlockDone ==
  /\ pc = "timestamp" /\ Fetch(idx, "block") \in inflight
  /\ inflight' = inflight \ {Fetch(idx, "block")}
  /\ \/ /\ \E t \in BlockTimes : settlement_timestamp' = t
        /\ k' = 0 /\ settlement_excess' = 0 /\ settlement_total' = 0
        /\ pc' = "orders" /\ UNCHANGED error
     \/ /\ Panic
        /\ UNCHANGED <<settlement_timestamp, k, settlement_excess, settlement_total>>
  /\ UNCHANGED <<args, io, current_block, from, to, settlements, idx, receipt, orders,
                 over_payed_excess, over_payed_total, summary, calls, outcomes,
                 age, over_payed_excessive, over_payed, recorded>>

\* print_settlement, lines 163-204: one iteration of the loop over the orders
OrderStep ==
  /\ pc = "orders" /\ k < Len(orders.v)
  /\ LET o == orders.v[k + 1]
         rc == receipt.v
     IN IF order_unwraps(rc, o)
        THEN LET gas == o.gas_amount.v
                 difference == gas_price_intolerated_difference(rc.effective_gas_price.v, o.gas_price.v)
                 excess == gas_price_excess(rc.effective_gas_price.v, o.gas_price.v)
             IN /\ age' = age_label(order_age(settlement_timestamp, o.creation_timestamp))
                /\ recorded' = is_over_payed(difference)
                /\ over_payed_excessive' = IF recorded' THEN wei_to_eth(difference * gas) ELSE 0
                /\ over_payed' = IF recorded' THEN wei_to_eth(excess * gas) ELSE 0
                /\ settlement_excess' = settlement_excess + over_payed_excessive'
                /\ settlement_total' = settlement_total + over_payed'
                /\ k' = k + 1
                /\ UNCHANGED <<pc, error>>
        ELSE /\ Panic
             /\ UNCHANGED <<k, settlement_excess, settlement_total,
                            age, over_payed_excessive, over_payed, recorded>>
  /\ UNCHANGED <<args, io, current_block, from, to, settlements, idx, inflight, receipt, orders,
                 over_payed_excess, over_payed_total, summary, calls, outcomes,
                 settlement_timestamp>>

\* print_settlement, lines 205-223: the settlement's report and the returned pair
Return ==
  /\ pc = "orders" /\ k = Len(orders.v)
  /\ IF receipt.v.gas_used.some /\ receipt.v.effective_gas_price.some
     THEN pc' = "returned" /\ UNCHANGED error
     ELSE Panic
  /\ UNCHANGED <<args, io, current_block, from, to, settlements, idx, inflight, receipt, orders,
                 over_payed_excess, over_payed_total, summary, calls, outcomes, locals>>

\* mutant: `=` in place of `+=`
add_analysis_assign(total, analysis) == analysis

\* main, lines 114-115: `total += analysis`
add_analysis(total, analysis) == total + analysis

\* main, lines 113-118: add the returned pair to the running totals
Accumulate ==
  /\ pc = "returned"
  /\ over_payed_excess' = add_analysis(over_payed_excess, settlement_excess)
  /\ over_payed_total' = add_analysis(over_payed_total, settlement_total)
  /\ outcomes' = Append(outcomes, Outcome("analyzed", receipt, orders,
                                          over_payed_excess', over_payed_total'))
  /\ Dropped
  /\ NoLocals_next
  /\ pc' = "loop"
  /\ UNCHANGED <<args, error, io, current_block, from, to, settlements, idx, inflight,
                 summary, calls>>

\* main, lines 120-121: the loop is over, print the totals
Summary ==
  /\ pc = "loop" /\ idx = Len(settlements)
  /\ summary' = summary + 1
  /\ pc' = "done"
  /\ UNCHANGED <<args, error, io, current_block, from, to, settlements, idx, inflight,
                 receipt, orders, over_payed_excess, over_payed_total, calls, outcomes, locals>>

Next ==
  \/ Connect \/ BlockNumber \/ Validate \/ QuerySettlements
  \/ NextSettlement \/ ReceiptDone \/ OrdersDone \/ Join
  \/ BlockDone \/ OrderStep \/ Return \/ Accumulate \/ Summary

Spec == Init /\ [][Next]_vars

\* ---- print_settlement on its own: every receipt and order list it can be given ----
\* gas_amount and gas_price are f64 columns: zero and negative values can be read
GasAmounts == 0..MaxGas
GasPrices == {0, 50}
EffectivePrices == {90, 100, 101, 150}

AnalyzerReceipts ==
  {Receipt(Some(1), Some(1), Some(e)) : e \in EffectivePrices}
    \cup {Receipt(Some(1), None, Some(150)), Receipt(Some(1), Some(1), None)}

AnalyzerOrders ==
  {FullOrder(1, g, p, None) : g \in GasAmounts, p \in GasPrices}
    \cup {FullOrder(2, 1, 50, Some(c)) : c \in CreationTimes}
    \cup {FullOrder(3, -1, 50, None), FullOrder(3, 1, -50, None)}
    \cup {RowWithoutFeeParams}

RECURSIVE SeqsUpTo(_, _)
SeqsUpTo(S, n) ==
  IF n = 0 THEN {<<>>}
  ELSE LET shorter == SeqsUpTo(S, n - 1)
       IN shorter \cup {Append(l, x) : l \in shorter, x \in S}

\* the state in which main has just called print_settlement (line 113)
InitAnalyzer ==
  /\ args = [from |-> Some(1), to |-> Some(2), blocks |-> 1]
  /\ pc = "timestamp" /\ error = ""
  /\ io = {"db_connect", "node_block_number", "db_settlements", "node_receipt", "db_orders", "node_block"}
  /\ current_block = 2 /\ from = Some(1) /\ to = Some(2)
  /\ settlements = <<SettlementRow(2, 32, 1, 0)>> /\ idx = 1
  /\ inflight = {Fetch(1, "block")}
  /\ \E r \in AnalyzerReceipts : receipt = Ok(r)
  /\ \E l \in SeqsUpTo(AnalyzerOrders, MaxOrders) : orders = Ok(l)
  /\ over_payed_excess = 0 /\ over_payed_total = 0 /\ summary = 0
  /\ calls = {1} /\ outcomes = <<>>
  /\ NoLocals

NextAnalyzer == BlockDone \/ OrderStep \/ Return

SpecAnalyzer == InitAnalyzer /\ [][NextAnalyzer]_vars

\* ---- properties of the driver (checked under Spec) -------------------------
ValidationMessage == "start has to be before end"
RangeResolved == from.some /\ to.some

C2_AnyFailureAborts ==
  \A j \in DOMAIN outcomes :
    ~IsErr(outcomes[j].receipt) /\ ~IsErr(outcomes[j].orders)

ReceiptAbsent(r) == IsOk(r) /\ ~r.v.found
ReceiptPresent(r) == IsOk(r) /\ r.v.found
LacksSellToken(ords) == IsOk(ords) /\ \E i \in DOMAIN ords.v : ords.v[i].sell_token = None
ExcessBefore(j) == IF j = 1 THEN 0 ELSE outcomes[j - 1].excess
TotalBefore(j) == IF j = 1 THEN 0 ELSE outcomes[j - 1].total

\* C3: a settlement whose receipt is absent is skipped: print_settlement is not
\* called for it, both running totals are what they were before it, and the run
\* does not abort on it (an absent receipt is held only while the loop body is
\* at the join; afterwards the settlement is recorded as skipped).
C3_AbsentReceiptSkipped ==
  /\ ReceiptAbsent(receipt) =>
       (pc = "join" /\ idx \notin calls
        /\ over_payed_excess = ExcessBefore(idx) /\ over_payed_total = TotalBefore(idx))
  /\ \A j \in DOMAIN outcomes :
       ReceiptAbsent(outcomes[j].receipt) =>
         /\ outcomes[j].what = "receipt_not_found"
         /\ j \notin calls
         /\ outcomes[j].excess = ExcessBefore(j) /\ outcomes[j].total = TotalBefore(j)

\* an absent receipt was skipped, whatever the order fetch returned, and a later
\* settlement was analyzed
C3_Witness ==
  /\ Len(outcomes) >= 2
  /\ ReceiptAbsent(outcomes[1].receipt) /\ outcomes[1].what = "receipt_not_found"
  /\ outcomes[2].what = "analyzed" /\ outcomes[2].excess > 0

\* C4: a settlement with a receipt and an order lacking sell_token is skipped as
\* a whole: print_settlement is not called for it (so none of its orders is
\* analyzed), both running totals are what they were before it, and the run goes
\* on to the next settlement.
C4_MissingSellTokenSkipped ==
  /\ (ReceiptPresent(receipt) /\ LacksSellToken(orders)) =>
       (pc = "join" /\ idx \notin calls
        /\ over_payed_excess = ExcessBefore(idx) /\ over_payed_total = TotalBefore(idx))
  /\ \A j \in DOMAIN outcomes :
       (ReceiptPresent(outcomes[j].receipt) /\ LacksSellToken(outcomes[j].orders)) =>
         /\ outcomes[j].what = "order_information_not_found"
         /\ j \notin calls
         /\ outcomes[j].excess = ExcessBefore(j) /\ outcomes[j].total = TotalBefore(j)

\* a settlement with one complete order and one lacking sell_token was skipped
\* and the next settlement was analyzed
C4_Witness ==
  /\ Len(outcomes) >= 2
  /\ ReceiptPresent(outcomes[1].receipt) /\ LacksSellToken(outcomes[1].orders)
  /\ Len(outcomes[1].orders.v) = 2 /\ outcomes[1].orders.v[1].sell_token.some
  /\ outcomes[1].what = "order_information_not_found"
  /\ outcomes[2].what = "analyzed"

RowKeyBelow(r, q) ==
  \/ r.block_number < q.block_number
  \/ r.block_number = q.block_number /\ r.log_index < q.log_index

\* C9: settlements are handled one at a time in ascending (block_number,
\* log_index) order: at most two fetches are in flight and they belong to the
\* current settlement; the receipt fetch and the order fetch are started
\* together; every settlement before the current one is finished before a fetch
\* of the current one is in flight; the skip checks and print_settlement act only
\* on two completed fetches.
C9_SequentialJoin ==
  /\ Cardinality(inflight) <= 2
  /\ \A f \in inflight : f.idx = idx
  /\ \A i, j \in DOMAIN settlements : i < j => RowKeyBelow(settlements[i], settlements[j])
  /\ Len(outcomes) \in {idx - 1, idx}
  /\ inflight # {} => Len(outcomes) = idx - 1
  /\ (\E f \in inflight : f.kind \in {"receipt", "orders"}) =>
       (pc = "join" /\ receipt.status # "none" /\ orders.status # "none"
        /\ (receipt.status = "pending" <=> Fetch(idx, "receipt") \in inflight)
        /\ (orders.status = "pending" <=> Fetch(idx, "orders") \in inflight))
  /\ pc \in {"timestamp", "orders", "returned"} =>
       (receipt.status = "ok" /\ orders.status = "ok" /\ inflight \subseteq {Fetch(idx, "block")})
  /\ idx \in calls => (receipt.status \in {"ok", "none"} /\ orders.status \in {"ok", "none"})
  /\ \A j \in DOMAIN outcomes :
       outcomes[j].receipt.status \in {"ok", "err"} /\ outcomes[j].orders.status \in {"ok", "err"}

\* the second of two settlements of one block has both fetches in flight, the
\* first one is finished
C9_Witness ==
  /\ idx = 2 /\ Len(outcomes) = 1
  /\ settlements[1].block_number = settlements[2].block_number
  /\ inflight = {Fetch(2, "receipt"), Fetch(2, "orders")}

\* the claim's arithmetic in the model's units: a price difference (gwei) times a
\* gas amount (1e5 gas) is 1e-4 ETH, that is 100 ether units of 1e-6 ETH
ClaimEth(price_times_gas) == price_times_gas * 100

ClaimExcess(e, o) ==
  IF e - 2 * o.gas_price.v > 0 THEN ClaimEth((e - 2 * o.gas_price.v) * o.gas_amount.v) ELSE 0
ClaimTotal(e, o) ==
  IF e - 2 * o.gas_price.v > 0 THEN ClaimEth((e - o.gas_price.v) * o.gas_amount.v) ELSE 0

RECURSIVE ClaimExcessSum(_, _, _)
ClaimExcessSum(e, list, n) ==
  IF n = 0 THEN 0 ELSE ClaimExcessSum(e, list, n - 1) + ClaimExcess(e, list[n])
RECURSIVE ClaimTotalSum(_, _, _)
ClaimTotalSum(e, list, n) ==
  IF n = 0 THEN 0 ELSE ClaimTotalSum(e, list, n - 1) + ClaimTotal(e, list[n])

Analyzable(o) == ReceiptPresent(o.receipt) /\ IsOk(o.orders) /\ ~LacksSellToken(o.orders)

RECURSIVE RunExcess(_)
RunExcess(n) ==
  IF n = 0 THEN 0
  ELSE RunExcess(n - 1)
       + (IF Analyzable(outcomes[n])
          THEN ClaimExcessSum(outcomes[n].receipt.v.effective_gas_price.v,
                              outcomes[n].orders.v, Len(outcomes[n].orders.v))
          ELSE 0)
RECURSIVE RunTotal(_)
RunTotal(n) ==
  IF n = 0 THEN 0
  ELSE RunTotal(n - 1)
       + (IF Analyzable(outcomes[n])
          THEN ClaimTotalSum(outcomes[n].receipt.v.effective_gas_price.v,
                             outcomes[n].orders.v, Len(outcomes[n].orders.v))
          ELSE 0)

\* C10: the running totals start at 0 and are at every moment the component-wise
\* sum, over the finished settlements that had a receipt and every sell_token, of
\* the pair the claim's formula gives; the summary is printed at most once, only
\* by a run that did not abort, after every settlement has been finished.
C10_TotalsAreSumOfAnalyzed ==
  /\ over_payed_excess = RunExcess(Len(outcomes))
  /\ over_payed_total = RunTotal(Len(outcomes))
  /\ summary = (IF pc = "done" THEN 1 ELSE 0)
  /\ pc = "done" => (idx = Len(settlements) /\ Len(outcomes) = Len(settlements))

\* the end-to-end example: one settlement, one order with gas 100000 at 50 gwei
\* under an effective gas price of 150 gwei, summary 0.005 ETH and 0.01 ETH
C10_Witness ==
  /\ pc = "done" /\ summary = 1 /\ Len(outcomes) = 1
  /\ outcomes[1].receipt.v.effective_gas_price = Some(150)
  /\ Len(outcomes[1].orders.v) = 1
  /\ outcomes[1].orders.v[1].gas_amount = Some(1) /\ outcomes[1].orders.v[1].gas_price = Some(50)
  /\ over_payed_excess = 5000 /\ over_payed_total = 10000

\* ---- properties of print_settlement (checked under SpecAnalyzer) -----------
\* the loop has handled k orders, the last of them being orders.v[k]
InLoop == pc \in {"orders", "returned"}
Handled == InLoop /\ k >= 1
LastOrder == orders.v[k]
EffectivePrice == receipt.v.effective_gas_price.v

\* C5: overpayment is recorded for an order iff E - 2P > 0; when recorded the
\* order adds (E - 2P) * G / 1e18 to the settlement's over_payed_excess and
\* (E - P) * G / 1e18 to its over_payed_total, otherwise nothing to either, so
\* after k orders the two sums are the sums of these contributions.
C5_OverpaymentActivation ==
  /\ Handled =>
       /\ recorded <=> (EffectivePrice - 2 * LastOrder.gas_price.v > 0)
       /\ over_payed_excessive = ClaimExcess(EffectivePrice, LastOrder)
       /\ over_payed = ClaimTotal(EffectivePrice, LastOrder)
  /\ InLoop =>
       /\ settlement_excess = ClaimExcessSum(EffectivePrice, orders.v, k)
       /\ settlement_total = ClaimTotalSum(EffectivePrice, orders.v, k)

\* the claim's example: G = 100000, P = 50 gwei, E = 150 gwei adds 0.005 ETH and
\* 0.01 ETH
C5_Witness ==
  /\ pc = "returned" /\ k = 1 /\ EffectivePrice = 150 /\ recorded
  /\ LastOrder.gas_amount = Some(1) /\ LastOrder.gas_price = Some(50)
  /\ settlement_excess = 5000 /\ settlement_total = 10000

\* C6 as stated: whenever overpayment is recorded for an order whose gas price is
\* positive, its contribution to over_payed_excess is strictly less than its
\* contribution to over_payed_total, whatever its gas amount.
C6_ExcessBelowTotal ==
  (Handled /\ recorded /\ LastOrder.gas_price.v > 0) => over_payed_excessive < over_payed

\* C6 as amended: whenever overpayment is recorded for an order whose gas price is
\* positive, its contribution to over_payed_excess is at most its contribution to
\* over_payed_total when its gas amount is >= 0, strictly less when its gas amount
\* is > 0, and both are 0 when its gas amount is 0.
C6_ExcessBelowTotalForPositiveGas ==
  (Handled /\ recorded /\ LastOrder.gas_price.v > 0) =>
    /\ LastOrder.gas_amount.v >= 0 => over_payed_excessive <= over_payed
    /\ LastOrder.gas_amount.v > 0 => over_payed_excessive < over_payed
    /\ LastOrder.gas_amount.v = 0 => (over_payed_excessive = 0 /\ over_payed = 0)

\* overpayment recorded for an order with positive gas price and gas amount 0
C6_Witness ==
  /\ Handled /\ recorded /\ LastOrder.gas_price.v > 0 /\ LastOrder.gas_amount.v = 0
  /\ over_payed_excessive = over_payed

\* C7 as stated: an order without creation timestamp has age 0 and is "recent";
\* an order with one is "old" iff settlement_timestamp - creation_timestamp > 1200.
C7_AgeClassification ==
  Handled =>
    age = (IF ~LastOrder.creation_timestamp.some THEN "recent"
           ELSE IF settlement_timestamp - LastOrder.creation_timestamp.v > 1200 THEN "old"
           ELSE "recent")

AllGasNonNegative == \A i \in DOMAIN orders.v : orders.v[i].gas_amount.v >= 0
NoOrderOverThreshold ==
  \A i \in DOMAIN orders.v : EffectivePrice - 2 * orders.v[i].gas_price.v <= 0
ReceiptComplete ==
  /\ receipt.v.block_number.some /\ receipt.v.gas_used.some /\ receipt.v.effective_gas_price.some

\* C8 as stated: the returned pair has both components >= 0 and is (0, 0) when no
\* order exceeds the 2x threshold; a settlement with zero orders returns (0, 0)
\* and does not fail.
C8_PairNonNegative ==
  /\ pc = "returned" =>
       /\ settlement_excess >= 0 /\ settlement_total >= 0
       /\ NoOrderOverThreshold => (settlement_excess = 0 /\ settlement_total = 0)
  /\ (pc = "panicked" /\ settlement_timestamp # 0 /\ ReceiptComplete) => Len(orders.v) > 0

\* C8 as amended: the returned pair is (0, 0) when no order exceeds the 2x
\* threshold, and has both components >= 0 when every order's gas amount is >= 0;
\* a settlement with zero orders returns (0, 0), and fails only if the block
\* timestamp cannot be fetched or the receipt lacks a field.
C8_PairNonNegativeForNonNegativeGas ==
  /\ pc = "returned" =>
       /\ AllGasNonNegative => (settlement_excess >= 0 /\ settlement_total >= 0)
       /\ NoOrderOverThreshold => (settlement_excess = 0 /\ settlement_total = 0)
  /\ (pc = "panicked" /\ settlement_timestamp # 0 /\ ReceiptComplete) => Len(orders.v) > 0

\* a settlement with zero orders has been analyzed and returned (0, 0)
C8_Witness ==
  /\ pc = "returned" /\ Len(orders.v) = 0 /\ calls = {1}
  /\ settlement_excess = 0 /\ settlement_total = 0
====
